---- MODULE Spec2Model ----
(***************************************************************************)
(* A model of final.py: scrape_nifty50_data (the Fetcher), which primes an *)
(* HTTP session, requests the NIFTY 50 snapshot, parses it and writes a    *)
(* CSV file; analyze_and_visualize (the Analyzer), which reads the CSV     *)
(* back and computes ranked views; and the __main__ block, which runs one  *)
(* after the other.  The file on disk outlives an invocation, so the       *)
(* program is modelled as invoked again and again against the same path.   *)
(***************************************************************************)
EXTENDS Integers, Sequences, FiniteSets, TLC

VARIABLES
    pc,                   \* position of the process in __main__ / the Fetcher
    file,                 \* the target file: [exists, lines], a line is a sequence of cells
    homepage_response,    \* the priming response
    response,             \* the API response
    data,                 \* the parsed JSON body
    stock_data_list,      \* data.get("data", [])
    fetchResult,          \* how the Fetcher call ended
    df,                   \* the Analyzer's data frame (rows after numeric coercion)
    top5_gainers,         \* each view: the data-frame index labels it lists, in order
    top5_losers,
    stocks_30_below_high,
    stocks_20_above_low,
    top30_returns,
    fileAtStart,          \* history: the file as the running Fetcher call found it
    apiRequested,         \* history: the API request was issued in this invocation
    opened,               \* history: open(csv_filename, "w") succeeded in this invocation
    prevFetchOk           \* history: the previous invocation's Fetcher succeeded

vars == <<pc, file, homepage_response, response, data, stock_data_list, fetchResult,
          df, top5_gainers, top5_losers, stocks_30_below_high, stocks_20_above_low,
          top30_returns, fileAtStart, apiRequested, opened, prevFetchOk>>

(***************************************************************************)
(* Bounds of the model.                                                    *)
(***************************************************************************)
MaxList == 2      \* longest row list of an API response in Spec
MaxRows == 6      \* longest row list of a file handed to the Analyzer in SpecAnalyze
MaxNum == 200     \* decimal numerals of -MaxNum..MaxNum are parsed back as numbers

(***************************************************************************)
(* JSON values.  A scalar or a list is [t, n, s, a]; an item of a list, or *)
(* the top-level value, is [dict, o]: a dict with its key-value function,  *)
(* or something that is no dict.                                           *)
(***************************************************************************)
Num(n) == [t |-> "num", n |-> n, s |-> "", a |-> <<>>]
Str(s) == [t |-> "str", n |-> 0, s |-> s, a |-> <<>>]
Null == [t |-> "null", n |-> 0, s |-> "", a |-> <<>>]
Arr(a) == [t |-> "arr", n |-> 0, s |-> "", a |-> a]
NoKeys == [k \in {} |-> Null]
Dict(o) == [dict |-> TRUE, o |-> o]
NonDict == [dict |-> FALSE, o |-> NoKeys]

\* dict.get(key, default)
Get(o, key, default) == IF key \in DOMAIN o THEN o[key] ELSE default

\* Python truthiness of a JSON value: "if not stock_data_list"
Truthy(v) ==
    CASE v.t = "arr" -> Len(v.a) > 0
      [] v.t = "str" -> v.s # ""
      [] v.t = "num" -> v.n # 0
      [] OTHER -> FALSE

(***************************************************************************)
(* The CSV schema, in the order of the csv_headers list.                   *)
(***************************************************************************)
\* variant: the field names in alphabetical order
csv_headers_sorted ==
    <<"change", "dayHigh", "dayLow", "lastPrice", "lastUpdateTime", "open",
      "pChange", "perChange30d", "previousClose", "symbol", "totalTradedValue",
      "totalTradedVolume", "yearHigh", "yearLow">>

csv_headers ==
    <<"symbol", "open", "dayHigh", "dayLow", "lastPrice", "previousClose",
      "change", "pChange", "totalTradedVolume", "totalTradedValue", "yearHigh",
      "yearLow", "lastUpdateTime", "perChange30d">>

numeric_columns ==
    {"open", "dayHigh", "dayLow", "lastPrice", "previousClose", "change",
     "pChange", "totalTradedVolume", "totalTradedValue", "yearHigh", "yearLow",
     "perChange30d"}

\* the csv module's text of a field value: None is written as the empty cell,
\* a number through str(), a string as it is
CsvText(v) ==
    CASE v.t = "num" -> ToString(v.n)
      [] v.t = "str" -> v.s
      [] OTHER -> ""

\* variant: a missing field defaults to "0"
DefaultMut == Str("0")

\* the default of stock.get(field, "")
Default == Str("")

\* lines 98-114: the row dict of one stock, written in the order of the header
RowLine(stock) ==
    [h \in 1..Len(csv_headers) |-> CsvText(Get(stock.o, csv_headers[h], Default))]

\* the items iterating over stock_data_list yields: a list's items; anything else
\* that is truthy (a string, a number) yields no dict, and the loop fails at once
Items(v) == IF v.t = "arr" THEN v.a ELSE <<NonDict>>

\* the index of the first item stock.get fails on, or 0
FirstBad(items) ==
    IF \E i \in 1..Len(items) : ~items[i].dict
    THEN CHOOSE i \in 1..Len(items) :
            ~items[i].dict /\ \A j \in 1..(i - 1) : items[j].dict
    ELSE 0

\* the lines a complete write of the items produces
AllLines(items) == <<csv_headers>> \o [i \in 1..Len(items) |-> RowLine(items[i])]

NoFile == [exists |-> FALSE, lines |-> <<>>]

\* variant: mode="a", the file keeps its lines
OpenAppend(f) == [exists |-> TRUE, lines |-> f.lines]

\* open(csv_filename, mode="w"): the file exists and is empty
OpenW(f) == [exists |-> TRUE, lines |-> <<>>]

Prefix(s, n) == [i \in 1..n |-> s[i]]

(***************************************************************************)
(* What the network can answer.                                            *)
(***************************************************************************)
HTTP_OK == 200

StockA ==
    Dict([symbol |-> Str("A"), open |-> Num(10), pChange |-> Num(5),
          lastPrice |-> Num(69), yearHigh |-> Num(100), yearLow |-> Num(50),
          series |-> Str("EQ")])
StockB ==
    Dict([symbol |-> Str("B"), pChange |-> Num(-3), lastPrice |-> Null,
          lastUpdateTime |-> Str("t1"), perChange30d |-> Num(7)])

FetchItems == {StockA, StockB, NonDict}

SeqsUpTo(S, n) == UNION {[1..k -> S] : k \in 0..n}

\* the parsed bodies: a dict whose "data" is a list, null or a string, a dict
\* without "data", and a value that is no dict (a top-level array)
JsonBodies ==
    {Dict([data |-> Arr(l)]) : l \in SeqsUpTo(FetchItems, MaxList)}
        \cup {Dict([data |-> Null]), Dict([data |-> Str("x")]),
              Dict([message |-> Str("x")]), NonDict}

\* enc: "plain" is JSON text, "gzip" is gzip-compressed JSON text, "gzip_garbage"
\* is gzip-compressed text that is no JSON, "garbage" is neither JSON nor gzip,
\* "empty" is the empty body
Bodies ==
    [enc : {"plain", "gzip"}, json : JsonBodies]
        \cup [enc : {"gzip_garbage", "garbage", "empty"}, json : {NonDict}]

NoBody == [enc |-> "empty", json |-> NonDict]
NoResponse == [raised |-> FALSE, status_code |-> 0, body |-> NoBody]

\* a response, or a requests.exceptions.RequestException (connection, timeout)
HomepageResponses ==
    {[raised |-> TRUE, status_code |-> 0, body |-> NoBody]}
        \cup [raised : {FALSE}, status_code : {HTTP_OK, 403}, body : {NoBody}]

ApiResponses ==
    {[raised |-> TRUE, status_code |-> 0, body |-> NoBody],
     [raised |-> FALSE, status_code |-> 503, body |-> NoBody]}
        \cup [raised : {FALSE}, status_code : {HTTP_OK}, body : Bodies]

(***************************************************************************)
(* The Fetcher, scrape_nifty50_data.                                       *)
(***************************************************************************)
NoViews ==
    /\ df' = <<>>
    /\ top5_gainers' = <<>>
    /\ top5_losers' = <<>>
    /\ stocks_30_below_high' = <<>>
    /\ stocks_20_above_low' = <<>>
    /\ top30_returns' = <<>>

Init ==
    /\ pc = "main"
    /\ file = NoFile
    /\ homepage_response = NoResponse
    /\ response = NoResponse
    /\ data = NonDict
    /\ stock_data_list = Null
    /\ fetchResult = "none"
    /\ df = <<>>
    /\ top5_gainers = <<>>
    /\ top5_losers = <<>>
    /\ stocks_30_below_high = <<>>
    /\ stocks_20_above_low = <<>>
    /\ top30_returns = <<>>
    /\ fileAtStart = NoFile
    /\ apiRequested = FALSE
    /\ opened = FALSE
    /\ prevFetchOk = FALSE

\* __main__ calls scrape_nifty50_data(csv_file) in a fresh process
Invoke ==
    /\ pc = "main"
    /\ pc' = "prime"
    /\ homepage_response' = NoResponse
    /\ response' = NoResponse
    /\ data' = NonDict
    /\ stock_data_list' = Null
    /\ fetchResult' = "running"
    /\ NoViews
    /\ fileAtStart' = file
    /\ apiRequested' = FALSE
    /\ opened' = FALSE
    /\ prevFetchOk' = (fetchResult = "ok")
    /\ UNCHANGED file

\* the early return of the Fetcher: __main__ goes on to the Analyzer
Return(result) ==
    /\ fetchResult' = result
    /\ pc' = "analyze"

\* an exception leaves the Fetcher; __main__ does not catch it
Raise ==
    /\ fetchResult' = "raised"
    /\ pc' = "crashed"

\* variant: the status code is not looked at
HomepageOkMut(r) == ~r.raised

\* line 38: the priming response arrived with status 200
HomepageOk(r) == ~r.raised /\ r.status_code = HTTP_OK

\* lines 36-43: the priming request
Prime ==
    /\ pc = "prime"
    /\ \E r \in HomepageResponses :
          /\ homepage_response' = r
          /\ IF HomepageOk(r)
             THEN pc' = "api" /\ UNCHANGED fetchResult
             ELSE Return("aborted")
    /\ UNCHANGED <<file, response, data, stock_data_list, df, top5_gainers,
                   top5_losers, stocks_30_below_high, stocks_20_above_low,
                   top30_returns, fileAtStart, apiRequested, opened, prevFetchOk>>

\* lines 59-64: response.json(), and on ValueError gzip.decompress, decode and
\* json.loads, whose failures (OSError, ValueError) no handler of the function
\* catches
Parses(body) == body.enc \in {"plain", "gzip"}

\* lines 49-67: the API request and the parse of its body
FetchApi ==
    /\ pc = "api"
    /\ \E r \in ApiResponses :
          /\ response' = r
          /\ IF r.raised \/ r.status_code # HTTP_OK
             THEN Return("aborted") /\ UNCHANGED data
             ELSE IF Parses(r.body)
                  THEN data' = r.body.json /\ pc' = "extract" /\ UNCHANGED fetchResult
                  ELSE Raise /\ UNCHANGED data
    /\ apiRequested' = TRUE
    /\ UNCHANGED <<file, homepage_response, stock_data_list, df, top5_gainers,
                   top5_losers, stocks_30_below_high, stocks_20_above_low,
                   top30_returns, fileAtStart, opened, prevFetchOk>>

\* variant: the emptiness check is left out
HasRowsMut(v) == TRUE

\* line 71: "if not stock_data_list" is false
HasRows(v) == Truthy(v)

\* lines 70-73: data.get("data", []) and the emptiness check; data.get on a
\* value that is no dict raises AttributeError outside every try block
Extract ==
    /\ pc = "extract"
    /\ IF ~data.dict
       THEN Raise /\ UNCHANGED stock_data_list
       ELSE /\ stock_data_list' = Get(data.o, "data", Arr(<<>>))
            /\ IF HasRows(stock_data_list')
               THEN pc' = "write" /\ UNCHANGED fetchResult
               ELSE Return("aborted")
    /\ UNCHANGED <<file, homepage_response, response, data, df, top5_gainers,
                   top5_losers, stocks_30_below_high, stocks_20_above_low,
                   top30_returns, fileAtStart, apiRequested, opened, prevFetchOk>>

\* lines 93-117: open, writeheader, one writerow per item, close.  io is the
\* file system's part: -1, open raises OSError; n below the number of lines the
\* loop gets to write, a write raises OSError with n lines on disk; otherwise no
\* I/O error.  "except Exception" catches every failure, stock.get on an item
\* that is no dict included, and the with block closes the file as it is.
WriteCsv ==
    /\ pc = "write"
    /\ LET items == Items(stock_data_list)
           bad == FirstBad(items)
           good == IF bad = 0 THEN Len(items) ELSE bad - 1
           attempt == Prefix(AllLines(items), 1 + good)
       IN \E io \in (-1)..Len(attempt) :
             IF io = -1
             THEN /\ UNCHANGED <<file, opened>>
                  /\ Return("aborted")
             ELSE /\ file' = [OpenW(file) EXCEPT !.lines = @ \o Prefix(attempt, io)]
                  /\ opened' = TRUE
                  /\ Return(IF io = Len(attempt) /\ bad = 0 THEN "ok" ELSE "aborted")
    /\ UNCHANGED <<homepage_response, response, data, stock_data_list, df,
                   top5_gainers, top5_losers, stocks_30_below_high,
                   stocks_20_above_low, top30_returns, fileAtStart, apiRequested,
                   prevFetchOk>>

(***************************************************************************)
(* The Analyzer, analyze_and_visualize.                                    *)
(***************************************************************************)
TOP_N == 5

Range(q) == {q[i] : i \in 1..Len(q)}
Min(x, y) == IF x <= y THEN x ELSE y

\* a cell of the data frame: a number, NaN, or (the symbol and timestamp columns) text
NaN == [nan |-> TRUE, v |-> 0, s |-> ""]
Number(n) == [nan |-> FALSE, v |-> n, s |-> ""]
Text(s) == [nan |-> FALSE, v |-> 0, s |-> s]

\* the decimal numerals the parser knows, with their values
NumOfText ==
    [s \in {ToString(n) : n \in (0 - MaxNum)..MaxNum} |->
        CHOOSE n \in (0 - MaxNum)..MaxNum : ToString(n) = s]

\* pd.to_numeric(errors="coerce") of a cell's text: its value, or NaN for the
\* empty cell and for text that is no number
to_numeric(text) ==
    IF text \in DOMAIN NumOfText THEN Number(NumOfText[text]) ELSE NaN

\* the index of a column in the header line
ColumnOf(header, c) == CHOOSE i \in 1..Len(header) : header[i] = c

\* lines 121-129: pd.read_csv and the coercion of the numeric columns; row i of
\* the frame (index label i) is line i + 1 of the file
ReadCsv(lines) ==
    [i \in 1..(Len(lines) - 1) |->
        [c \in Range(lines[1]) |->
            IF c \in numeric_columns
            THEN to_numeric(lines[i + 1][ColumnOf(lines[1], c)])
            ELSE Text(lines[i + 1][ColumnOf(lines[1], c)])]]

\* pd.read_csv raises on a missing file (FileNotFoundError) and on a file without
\* a header line (EmptyDataError); df[col] raises KeyError on a missing column
Readable(f) ==
    /\ f.exists
    /\ Len(f.lines) >= 1
    /\ numeric_columns \cup {"symbol"} \subseteq Range(f.lines[1])

\* a sort key: NaN, or the fraction num / den with den > 0
Key(num, den) == [nan |-> FALSE, num |-> num, den |-> den]
NaNKey == [nan |-> TRUE, num |-> 0, den |-> 1]
ColumnKey(cell) == IF cell.nan THEN NaNKey ELSE Key(cell.v, 1)

\* a sorts strictly before b
Before(a, b, ascending) ==
    IF ascending
    THEN a.num * b.den < b.num * a.den
    ELSE a.num * b.den > b.num * a.den

RECURSIVE Ascending(_)
Ascending(S) ==
    IF S = {} THEN <<>>
    ELSE LET m == CHOOSE x \in S : \A y \in S : x <= y
         IN <<m>> \o Ascending(S \ {m})

\* every order of the labels S in which no label comes after one whose key
\* sorts strictly after it: rows of equal key come in any order (the default
\* sort kind, quicksort, is not stable)
RECURSIVE Orders(_, _, _)
Orders(S, keys, ascending) ==
    IF S = {} THEN {<<>>}
    ELSE LET first == {i \in S : \A j \in S : ~Before(keys[j], keys[i], ascending)}
         IN UNION {{<<i>> \o rest : rest \in Orders(S \ {i}, keys, ascending)} :
                      i \in first}

\* DataFrame.sort_values(by=..., ascending=...): the orders of the labels of
\* keys it can return; rows with a NaN key come last, in frame order
sort_values(keys, ascending) ==
    {o \o Ascending({i \in DOMAIN keys : keys[i].nan}) :
        o \in Orders({i \in DOMAIN keys : ~keys[i].nan}, keys, ascending)}

\* variant: one row short
headMut(order, n) == [i \in 1..Min(n - 1, Len(order)) |-> order[i]]

\* DataFrame.head(n)
head(order, n) == [i \in 1..Min(n, Len(order)) |-> order[i]]

\* 2 ** ceil(log2(p)), and 1 for p <= 1
RECURSIVE Pow2Ceil(_)
Pow2Ceil(p) == IF p <= 1 THEN 1 ELSE 2 * Pow2Ceil((p + 1) \div 2)

\* lastPrice <= 0.70 * yearHigh in binary64, for integers p and h.  The double
\* 0.70 is 7/10 - 0.4 * 2^-53, so the product is 7h/10 - 0.4h * 2^-53 before
\* rounding.  Below the boundary (10p < 7h) the comparison is true and above it
\* false; on the boundary (10p = 7h) the product rounds up to p, and the
\* comparison is true, exactly when 0.4h * 2^-53 is at most half the spacing of
\* doubles below p, that is when 4h <= 5 * Pow2Ceil(p).
LeqFloat70(p, h) ==
    \/ 10 * p < 7 * h
    \/ 10 * p = 7 * h /\ 4 * h <= 5 * Pow2Ceil(p)

\* lastPrice >= 1.20 * yearLow in binary64, for integers p and l: the double
\* 1.20 is 12/10 - 0.4 * 2^-53, and the rounded product never exceeds p on the
\* boundary
GeqFloat120(p, l) == 10 * p >= 12 * l

\* line 142: the mask of df_below_high; a comparison with NaN is False
BelowHigh(row) ==
    /\ ~row["lastPrice"].nan
    /\ ~row["yearHigh"].nan
    /\ LeqFloat70(row["lastPrice"].v, row["yearHigh"].v)

\* line 151: the mask of df_above_low
AboveLow(row) ==
    /\ ~row["lastPrice"].nan
    /\ ~row["yearLow"].nan
    /\ GeqFloat120(row["lastPrice"].v, row["yearLow"].v)

\* line 144: pctBelowHigh = (yearHigh - lastPrice) / yearHigh * 100, as a key
pctBelowHigh(row) == Key(row["yearHigh"].v - row["lastPrice"].v, row["yearHigh"].v)

\* line 153: pctAboveLow = (lastPrice - yearLow) / yearLow * 100, as a key
pctAboveLow(row) == Key(row["lastPrice"].v - row["yearLow"].v, row["yearLow"].v)

\* the keys of a view: of the rows the mask keeps, a function of their labels
ColumnKeys(d, c) == [i \in DOMAIN d |-> ColumnKey(d[i][c])]
BelowHighKeys(d) == [i \in {j \in DOMAIN d : BelowHigh(d[j])} |-> pctBelowHigh(d[i])]
AboveLowKeys(d) == [i \in {j \in DOMAIN d : AboveLow(d[j])} |-> pctAboveLow(d[i])]

\* the views sort_values(...).head(5) can return
GainersViews(d) == {head(o, TOP_N) : o \in sort_values(ColumnKeys(d, "pChange"), FALSE)}
LosersViews(d) == {head(o, TOP_N) : o \in sort_values(ColumnKeys(d, "pChange"), TRUE)}
BelowHighViews(d) == {head(o, TOP_N) : o \in sort_values(BelowHighKeys(d), FALSE)}
AboveLowViews(d) == {head(o, TOP_N) : o \in sort_values(AboveLowKeys(d), FALSE)}
ReturnsViews(d) == {head(o, TOP_N) : o \in sort_values(ColumnKeys(d, "perChange30d"), FALSE)}

\* lines 119-184: read the file, coerce, compute the five views
Analyze ==
    /\ pc = "analyze"
    /\ Readable(file)
    /\ df' = ReadCsv(file.lines)
    /\ top5_gainers' \in GainersViews(df')
    /\ top5_losers' \in LosersViews(df')
    /\ stocks_30_below_high' \in BelowHighViews(df')
    /\ stocks_20_above_low' \in AboveLowViews(df')
    /\ top30_returns' \in ReturnsViews(df')
    /\ pc' = "done"
    /\ UNCHANGED <<file, homepage_response, response, data, stock_data_list,
                   fetchResult, fileAtStart, apiRequested, opened, prevFetchOk>>

\* line 121 or 129 raises: the Analyzer fails loudly
AnalyzeFails ==
    /\ pc = "analyze"
    /\ ~Readable(file)
    /\ pc' = "crashed"
    /\ UNCHANGED <<file, homepage_response, response, data, stock_data_list,
                   fetchResult, df, top5_gainers, top5_losers, stocks_30_below_high,
                   stocks_20_above_low, top30_returns, fileAtStart, apiRequested,
                   opened, prevFetchOk>>

\* the process has ended; the program is invoked again
Exit ==
    /\ pc \in {"done", "crashed"}
    /\ pc' = "main"
    /\ UNCHANGED <<file, homepage_response, response, data, stock_data_list,
                   fetchResult, df, top5_gainers, top5_losers, stocks_30_below_high,
                   stocks_20_above_low, top30_returns, fileAtStart, apiRequested,
                   opened, prevFetchOk>>

Next == Invoke \/ Prime \/ FetchApi \/ Extract \/ WriteCsv \/ Analyze \/ AnalyzeFails \/ Exit

Spec == Init /\ [][Next]_vars

(***************************************************************************)
(* The Analyzer alone, on the files a successful Fetcher run can leave.    *)
(***************************************************************************)
Quote(sym, pc_, last, high, low) ==
    Dict([symbol |-> Str(sym), pChange |-> Num(pc_), lastPrice |-> Num(last),
          yearHigh |-> Num(high), yearLow |-> Num(low)])

AllStocks ==
    <<Quote("A", 5, 69, 100, 50),
      Quote("B", -3, 70, 100, 50),
      Quote("C", 10, 71, 100, 50),
      Quote("D", -1, 120, 200, 100),
      Quote("E", 0, 121, 200, 100),
      Quote("F", 5, 119, 200, 100),
      Dict([symbol |-> Str("G"), pChange |-> Num(2), yearHigh |-> Num(100),
            yearLow |-> Num(10), perChange30d |-> Num(4)]),
      Quote("H", -3, 63, 90, 30),
      Quote("I", 7, 60, 100, 50)>>

Reverse(q) == [i \in 1..Len(q) |-> q[Len(q) + 1 - i]]

\* the stocks of AllStocks with their positions in S, in the order of AllStocks
SubList(S) == LET order == Ascending(S) IN [i \in 1..Len(order) |-> AllStocks[order[i]]]

\* the row lists handed to the Analyzer: the non-empty sublists of AllStocks of at
\* most MaxRows rows, and their reversals
AnalyzeLists ==
    LET subs == {SubList(S) : S \in {T \in SUBSET (1..Len(AllStocks)) :
                                        T # {} /\ Cardinality(T) <= MaxRows}}
    IN subs \cup {Reverse(l) : l \in subs}

InitAnalyze ==
    /\ pc = "analyze"
    /\ \E l \in AnalyzeLists :
          /\ stock_data_list = Arr(l)
          /\ data = Dict([data |-> Arr(l)])
          /\ response = [raised |-> FALSE, status_code |-> HTTP_OK,
                         body |-> [enc |-> "plain", json |-> Dict([data |-> Arr(l)])]]
          /\ file = [exists |-> TRUE, lines |-> AllLines(l)]
    /\ homepage_response = [raised |-> FALSE, status_code |-> HTTP_OK, body |-> NoBody]
    /\ fetchResult = "ok"
    /\ df = <<>>
    /\ top5_gainers = <<>>
    /\ top5_losers = <<>>
    /\ stocks_30_below_high = <<>>
    /\ stocks_20_above_low = <<>>
    /\ top30_returns = <<>>
    /\ fileAtStart = NoFile
    /\ apiRequested = TRUE
    /\ opened = TRUE
    /\ prevFetchOk = FALSE

NextAnalyze == Analyze

SpecAnalyze == InitAnalyze /\ [][NextAnalyze]_vars

(***************************************************************************)
(* The claims.                                                             *)
(***************************************************************************)
FetchFailed == fetchResult \in {"aborted", "raised"}
Rows == stock_data_list.a

\* C1: a Fetcher run that fails at any step leaves the target file exactly as it
\* found it: the file is created or overwritten only by a run that succeeds in full.
C1_FailedRunLeavesFileUntouched == FetchFailed => file = fileAtStart

\* C2: no failure of the Fetcher's error taxonomy lets an exception leave the
\* Fetcher call.
C2_NoExceptionEscapes == fetchResult # "raised"

PrimingFailed ==
    /\ homepage_response # NoResponse
    /\ homepage_response.raised \/ homepage_response.status_code # 200

\* C3: when the priming request raises a network error or returns a status other
\* than 200, the run aborts: the API request is not issued, the file is as the run
\* found it (none is created), and no exception leaves the Fetcher.
C3_PrimingFailureAborts ==
    PrimingFailed =>
        /\ ~apiRequested
        /\ file = fileAtStart
        /\ ~opened
        /\ fetchResult = "aborted"

C3_Witness ==
    /\ homepage_response.status_code = 403
    /\ fetchResult = "aborted"
    /\ ~file.exists
    /\ pc = "crashed"

\* C4: whenever the Analyzer has read the file, the file was written by the Fetcher
\* of the same invocation, and the rows read are the rows that Fetcher wrote: never
\* rows an earlier invocation left.
C4_AnalyzerReadsThisRunsRows ==
    pc = "done" => opened /\ df = ReadCsv(file.lines)

SpecSchema ==
    <<"symbol", "open", "dayHigh", "dayLow", "lastPrice", "previousClose",
      "change", "pChange", "totalTradedVolume", "totalTradedValue", "yearHigh",
      "yearLow", "perChange30d", "lastUpdateTime">>

\* C5 as stated: the header of every file a successful run writes is the 14
\* columns in the order of the spec's data model, perChange30d before
\* lastUpdateTime.
C5_HeaderInSpecOrder ==
    fetchResult = "ok" => file.exists /\ Len(file.lines) >= 1 /\ file.lines[1] = SpecSchema

\* C5 as amended: the header of every file a successful run writes is the same 14
\* columns with lastUpdateTime 13th and perChange30d 14th, whichever fields the
\* source objects supplied.
C5_HeaderInCodeOrder ==
    fetchResult = "ok" =>
        /\ file.exists
        /\ Len(file.lines) >= 1
        /\ file.lines[1] =
              <<"symbol", "open", "dayHigh", "dayLow", "lastPrice", "previousClose",
                "change", "pChange", "totalTradedVolume", "totalTradedValue",
                "yearHigh", "yearLow", "lastUpdateTime", "perChange30d">>

C5_Witness ==
    /\ fetchResult = "ok"
    /\ Rows = <<StockB>>
    /\ file.exists
    /\ Len(file.lines[1]) = 14

\* C6: a successful run writes one data row per source object, in the order of the
\* list; the cell of a schema field is the text of the object's value when the
\* object has the field (null is written as the empty cell) and empty when it
\* lacks it, and a row has the 14 cells of the schema and no other.
C6_OneRowPerObject ==
    fetchResult = "ok" =>
        /\ Len(file.lines) = 1 + Len(Rows)
        /\ \A i \in 1..Len(Rows) :
              /\ Len(file.lines[i + 1]) = Len(file.lines[1])
              /\ \A h \in 1..Len(file.lines[1]) :
                    file.lines[i + 1][h] =
                        IF file.lines[1][h] \in DOMAIN Rows[i].o
                        THEN CsvText(Rows[i].o[file.lines[1][h]])
                        ELSE ""

C6_Witness ==
    /\ fetchResult = "ok"
    /\ Rows = <<StockB, StockA>>
    /\ file.lines[3][1] = "A"
    /\ file.lines[2][5] = ""
    /\ file.lines[2][8] = "-3"

\* C7: after two successful runs in succession the file holds the header and the
\* second run's rows, each once and in order, and nothing of the first run's file.
C7_SecondRunOverwrites ==
    (fetchResult = "ok" /\ prevFetchOk) =>
        /\ Len(file.lines) = 1 + Len(Rows)
        /\ \A i \in 1..Len(Rows) : file.lines[i + 1] = RowLine(Rows[i])

C7_Witness ==
    /\ fetchResult = "ok"
    /\ prevFetchOk
    /\ Len(fileAtStart.lines) > Len(file.lines)
    /\ fileAtStart.lines[2] # file.lines[2]

pch(i) == df[i]["pChange"].v
Labels(view) == {view[i] : i \in 1..Len(view)}
NoRepeats(view) == Cardinality(Labels(view)) = Len(view)
AllNumeric == \A i \in DOMAIN df : ~df[i]["pChange"].nan

\* the gainers are min(5, n) rows of largest pChange, in descending order
GainersRanked ==
    /\ Len(top5_gainers) = Min(5, Len(df))
    /\ Labels(top5_gainers) \subseteq DOMAIN df
    /\ NoRepeats(top5_gainers)
    /\ \A i, j \in 1..Len(top5_gainers) :
          i < j => pch(top5_gainers[i]) >= pch(top5_gainers[j])
    /\ \A k \in DOMAIN df \ Labels(top5_gainers) :
          \A i \in 1..Len(top5_gainers) : pch(top5_gainers[i]) >= pch(k)

\* the losers are min(5, n) rows of smallest pChange, in ascending order
LosersRanked ==
    /\ Len(top5_losers) = Min(5, Len(df))
    /\ Labels(top5_losers) \subseteq DOMAIN df
    /\ NoRepeats(top5_losers)
    /\ \A i, j \in 1..Len(top5_losers) :
          i < j => pch(top5_losers[i]) <= pch(top5_losers[j])
    /\ \A k \in DOMAIN df \ Labels(top5_losers) :
          \A i \in 1..Len(top5_losers) : pch(top5_losers[i]) <= pch(k)

\* C8 as stated: gainers and losers are ranked as above, and with at most 5 rows
\* the losers view is the gainers view reversed, row for row.
C8_LosersAreGainersReversed ==
    (pc = "done" /\ AllNumeric) =>
        /\ GainersRanked
        /\ LosersRanked
        /\ Len(df) <= 5 => top5_losers = Reverse(top5_gainers)

\* C8 as amended: gainers and losers are ranked as above; with at most 5 rows the
\* pChange values of the losers view are those of the gainers view reversed, and
\* the rows themselves are reversed when no two rows have the same pChange.
C8_MoversRanked ==
    (pc = "done" /\ AllNumeric) =>
        /\ GainersRanked
        /\ LosersRanked
        /\ Len(df) <= 5 =>
              /\ [i \in 1..Len(top5_losers) |-> pch(top5_losers[i])]
                    = Reverse([i \in 1..Len(top5_gainers) |-> pch(top5_gainers[i])])
              /\ (\A i, j \in DOMAIN df : i # j => pch(i) # pch(j))
                    => top5_losers = Reverse(top5_gainers)

\* pChange [5, -3, 10, -1, 0]: gainers [10, 5, 0, -1, -3], losers [-3, -1, 0, 5, 10]
C8_Witness ==
    /\ pc = "done"
    /\ [i \in 1..Len(df) |-> pch(i)] = <<5, -3, 10, -1, 0>>
    /\ top5_gainers = <<3, 1, 5, 4, 2>>
    /\ top5_losers = <<2, 4, 5, 1, 3>>

\* the rows the claim makes eligible: lastPrice <= 0.70 * yearHigh, and
\* lastPrice >= 1.20 * yearLow, with both values present
EligibleBelowHigh ==
    {i \in DOMAIN df : /\ ~df[i]["lastPrice"].nan
                       /\ ~df[i]["yearHigh"].nan
                       /\ 100 * df[i]["lastPrice"].v <= 70 * df[i]["yearHigh"].v}
EligibleAboveLow ==
    {i \in DOMAIN df : /\ ~df[i]["lastPrice"].nan
                       /\ ~df[i]["yearLow"].nan
                       /\ 100 * df[i]["lastPrice"].v >= 120 * df[i]["yearLow"].v}

\* view lists min(5, |eligible|) rows of eligible, those of largest key, descending
RankedAmong(view, eligible, key(_)) ==
    /\ Len(view) = Min(5, Cardinality(eligible))
    /\ Labels(view) \subseteq eligible
    /\ NoRepeats(view)
    /\ \A i, j \in 1..Len(view) :
          i < j => ~Before(key(df[view[j]]), key(df[view[i]]), FALSE)
    /\ \A k \in eligible \ Labels(view) :
          \A i \in 1..Len(view) : ~Before(key(df[k]), key(df[view[i]]), FALSE)

\* C9: the threshold views use inclusive bounds and never pad: a row is eligible
\* for the below-high view iff lastPrice <= 0.70 * yearHigh and for the above-low
\* view iff lastPrice >= 1.20 * yearLow, rows with a missing value never are, and
\* each view lists min(5, number eligible) eligible rows, those of largest
\* percentage, in descending order.
C9_ThresholdViewsInclusive ==
    pc = "done" =>
        /\ RankedAmong(stocks_30_below_high, EligibleBelowHigh, pctBelowHigh)
        /\ RankedAmong(stocks_20_above_low, EligibleAboveLow, pctAboveLow)

NoRowList ==
    /\ data.dict
    /\ pc # "extract"
    /\ "data" \notin DOMAIN data.o \/ data.o["data"] = Arr(<<>>)

\* C10: when the parsed response has no row list or an empty one, the Fetcher
\* returns without opening the file; so a file a successful run wrote holds the
\* header and at least one data row.
C10_NoRowsNoFile ==
    /\ NoRowList => ~opened /\ file = fileAtStart /\ fetchResult = "aborted"
    /\ fetchResult = "ok" => Len(file.lines) >= 2 /\ file.lines[1] = csv_headers

C10_Witness ==
    /\ data = Dict([data |-> Arr(<<>>)])
    /\ stock_data_list = Arr(<<>>)
    /\ fetchResult = "aborted"
    /\ ~file.exists

====
